---- MODULE Spec2Model ----
(***************************************************************************)
(* The log-structured key-value engine of rust-kv (src/src/engines/store.rs *)
(* with the engine surface of src/src/engines/kvs.rs).                     *)
(*                                                                         *)
(* A segment file is a sequence of byte tokens.  A Set record is encoded   *)
(* as the three tokens "S", key, value and a Rm record as the two tokens   *)
(* "R", key, so that byte offsets, record lengths, short reads and         *)
(* misaligned reads are all representable.  A file id names one file for   *)
(* its whole life: disk keeps the bytes of an unlinked file for the        *)
(* readers that still hold a descriptor of it, exists is the directory.    *)
(***************************************************************************)
EXTENDS Integers, Sequences, FiniteSets, TLC

\* ---------------------------------------------------------------- bounds
MaxOps == 5          \* operations (and re-opens) started in one behaviour
DeepOps == 7         \* the same, for the behaviours on one key and one value
ConcOps == 4         \* the same, for the interleaved behaviours
RoleOps == 6         \* the same, for one writer and its readers
LongOps == 10        \* the same, for the long life of one key
MaxRecs == 2         \* records in each segment file found by Store::new
MaxOpens == 1        \* times the directory is opened again
MaxPreempt == 2      \* context switches away from a handle in mid-operation
NumHandles == 2      \* handle 1 is returned by open, the others are clones
NumWorkers == 2      \* size of the ThreadPool
MaxJobs == 3         \* closures handed to ThreadPool::execute
NumConns == 2        \* connections the listener accepts
MaxReqs == 4         \* requests the clients send, on all connections

\* COMPACTION_THRESHOLD is 1024 * 1024 bytes in the source; here it is scaled
\* to the token encoding of the records (a Set is 3 tokens, a Rm is 2).
COMPACTION_THRESHOLD == 3

Keys == {"a", "b"}
KeyOrder == <<"a", "b">>      \* the Ord of K, as the SkipMap iterates
Vals == {"x", "y"}
Handles == 1 .. NumHandles
Workers == 1 .. NumWorkers
Conns == 1 .. NumConns

VARIABLES
    exists,      \* ids of the segment files in the directory
    disk,        \* id -> flushed bytes of that file
    wr,          \* Writer: file_id, fd (file the BufWriter appends to), pos, uncompacted
    lock,        \* holder of the Mutex<Writer>, 0 when free
    poisoned,    \* the Mutex was held by a thread that panicked
    index,       \* SkipMap: key -> EntryOffset, NoEntry when absent
    lcp,         \* last_compaction_point
    readers,     \* handle -> ids of the segments its reader cache holds
    pc,          \* handle -> position in its current operation
    loc,         \* handle -> locals of its current operation
    res,         \* handle -> its last completed operation and the outcome
    vers,        \* history: key -> the values appended for it, "None" for a Rm
    seen,        \* history: handle -> key -> the version its last get returned
    writers,     \* history: the handles that have called set or remove
    clean,       \* history: no set or remove has returned an error or panicked
    nops,        \* history: operations started
    nopens,      \* history: re-opens
    reop,        \* history: how the directory was last opened
    cur,         \* history: handle that took the last step
    preempts,    \* history: context switches so far
    sender,      \* ThreadPool.sender is Some: the channel is open
    channel,     \* the jobs sent and not yet received
    receiver,    \* Mutex<Receiver>: lock (holder, 0 when free), poisoned
    workers,     \* worker -> pc of its thread and the job it runs
    main,        \* the thread that owns the pool: pc, next worker to join
    ran,         \* history: (job id, worker) of every job taken from the channel
    streams      \* connection -> state, peer, inp (bytes to decode), reqs, out

\* the engine
evars == <<exists, disk, wr, lock, poisoned, index, lcp, readers, pc, loc, res,
           vers, seen, writers, clean, nops, nopens, reop, cur, preempts>>

\* the thread pool and the connections
srv == <<sender, channel, receiver, workers, main, ran, streams>>

vars == <<evars, srv>>

\* ------------------------------------------------------------ record codec
NoEntry == [file_id |-> 0, start |-> 0, end |-> 0]

EntryLen(e) == e.end - e.start

\* serde_json::to_string(&Entry::init_set(key, val))
EncodeSet(k, v) == <<"S", k, v>>

\* serde_json::to_string(&Entry::init_rm(key))
EncodeRm(k) == <<"R", k>>

Min(a, b) == IF a < b THEN a ELSE b

\* Reader::read_limited: seek to start, take end - start bytes (fewer at EOF)
ReadLimited(content, start, end) ==
    IF start >= Len(content) THEN <<>>
    ELSE SubSeq(content, start + 1, Min(end, Len(content)))

\* serde_json::from_reader: exactly one record and nothing after it
FromReader(b) ==
    IF Len(b) = 3 /\ b[1] = "S" /\ b[2] \in Keys /\ b[3] \in Vals
    THEN [ok |-> TRUE, op |-> "Set", key |-> b[2], val |-> b[3]]
    ELSE IF Len(b) = 2 /\ b[1] = "R" /\ b[2] \in Keys
    THEN [ok |-> TRUE, op |-> "Rm", key |-> b[2], val |-> "None"]
    ELSE [ok |-> FALSE, op |-> "Err", key |-> "None", val |-> "None"]

\* Reader::read: the value of a Set record, None for any other record
ReaderRead(content, start, end) ==
    LET r == FromReader(ReadLimited(content, start, end))
    IN  IF ~r.ok THEN "Serde"
        ELSE IF r.op = "Set" THEN r.val
        ELSE "None"

\* Reader::load_index from byte p on: the index, the stale bytes, or an error
RECURSIVE LoadIndexFrom(_, _, _, _, _)
LoadIndexFrom(content, p, file_id, idx, unc) ==
    IF p >= Len(content) THEN [ok |-> TRUE, index |-> idx, unc |-> unc]
    ELSE IF content[p + 1] = "S" /\ p + 3 <= Len(content)
            /\ content[p + 2] \in Keys /\ content[p + 3] \in Vals
    THEN LET k == content[p + 2]
             old == IF idx[k] # NoEntry THEN EntryLen(idx[k]) ELSE 0
         IN  LoadIndexFrom(content, p + 3, file_id,
                 [idx EXCEPT ![k] = [file_id |-> file_id, start |-> p, end |-> p + 3]],
                 unc + old)
    ELSE IF content[p + 1] = "R" /\ p + 2 <= Len(content) /\ content[p + 2] \in Keys
    THEN LET k == content[p + 2]
             old == IF idx[k] # NoEntry THEN EntryLen(idx[k]) ELSE 0
         IN  LoadIndexFrom(content, p + 2, file_id,
                 [idx EXCEPT ![k] = NoEntry], unc + old + 2)
    ELSE [ok |-> FALSE, index |-> idx, unc |-> unc]

\* LoadIndex that starts every segment from an empty index
LoadIndexFresh(content, file_id, idx) ==
    LoadIndexFrom(content, 0, file_id, [k \in Keys |-> NoEntry], 0)

LoadIndex(content, file_id, idx) == LoadIndexFrom(content, 0, file_id, idx, 0)

\* get_inactive_file_ids: the ids of the directory, sorted
RECURSIVE SortedIds(_)
SortedIds(S) ==
    IF S = {} THEN <<>>
    ELSE LET m == CHOOSE x \in S : \A y \in S : x <= y
         IN  <<m>> \o SortedIds(S \ {m})

MaxOf(S) == CHOOSE x \in S : \A y \in S : y <= x

\* Store::load_inactive_files: replay every file in ascending id order
RECURSIVE LoadInactiveFiles(_, _, _, _, _)
LoadInactiveFiles(ids, i, d, idx, unc) ==
    IF i > Len(ids) THEN [ok |-> TRUE, index |-> idx, unc |-> unc]
    ELSE LET r == LoadIndex(d[ids[i]], ids[i], idx)
         IN  IF ~r.ok THEN [ok |-> FALSE, index |-> r.index, unc |-> unc]
             ELSE LoadInactiveFiles(ids, i + 1, d, r.index, unc + r.unc)

\* fs::OpenOptions create(true).append(true): a missing file is created empty
CreateFile(d, ex, id) ==
    IF id \in ex THEN d
    ELSE [i \in DOMAIN d \cup {id} |-> IF i = id THEN <<>> ELSE d[i]]

EmptyIndex == [k \in Keys |-> NoEntry]

NoLoc == [op |-> "none", key |-> "None", val |-> "None", bytes |-> <<>>,
          off |-> NoEntry, pos |-> 0, endp |-> 0, fid |-> 0,
          cid |-> 0, cpos |-> 0, cbuf |-> <<>>, cursor |-> 0,
          stale |-> {}, exp |-> "None", cl |-> TRUE, n |-> 0]

\* a worker that runs no job
NoJob == [id |-> 0, kind |-> "none", conn |-> 0]

\* a connection nobody has opened: what the peer did, the requests it sent
\* that are not decoded yet, the requests decoded, the responses written
NoStream == [state |-> "none", peer |-> "open", inp |-> <<>>, reqs |-> <<>>,
             out |-> <<>>]

NoRes == [op |-> "none", key |-> "None", val |-> "None", out |-> "none",
          exp |-> "None", cl |-> TRUE, lo |-> 0, hi |-> 0]

\* ------------------------------------------------------------------ open
\* StoreNew with the new id taken from the number of files in the directory
StoreNewByCount(d, ex) ==
    LET new_file_id == Cardinality(ex) + 1
        d1 == CreateFile(d, ex, new_file_id)
        ex1 == ex \cup {new_file_id}
        r == LoadInactiveFiles(SortedIds(ex1), 1, d1, EmptyIndex, 0)
    IN  [ok |-> r.ok, disk |-> d1, exists |-> ex1, index |-> r.index,
         wr |-> [file_id |-> new_file_id, fd |-> new_file_id, pos |-> 0,
                 uncompacted |-> r.unc],
         readers |-> [h \in Handles |-> IF h = 1 THEN ex1 ELSE {}]]

\* Store::new on a directory holding the files ex with the bytes d
StoreNew(d, ex) ==
    LET new_file_id == IF ex = {} THEN 1 ELSE MaxOf(ex) + 1
        d1 == CreateFile(d, ex, new_file_id)
        ex1 == ex \cup {new_file_id}
        r == LoadInactiveFiles(SortedIds(ex1), 1, d1, EmptyIndex, 0)
    IN  [ok |-> r.ok, disk |-> d1, exists |-> ex1, index |-> r.index,
         wr |-> [file_id |-> new_file_id, fd |-> new_file_id, pos |-> 0,
                 uncompacted |-> r.unc],
         readers |-> [h \in Handles |-> IF h = 1 THEN ex1 ELSE {}]]

Init ==
    LET s == StoreNew(<<>>, {})
    IN  /\ exists = s.exists
        /\ disk = s.disk
        /\ wr = s.wr
        /\ lock = 0
        /\ poisoned = FALSE
        /\ index = s.index
        /\ lcp = 0
        /\ readers = s.readers
        /\ pc = [h \in Handles |-> "idle"]
        /\ loc = [h \in Handles |-> NoLoc]
        /\ res = [h \in Handles |-> NoRes]
        /\ vers = [k \in Keys |-> <<>>]
        /\ seen = [h \in Handles |-> [k \in Keys |-> 0]]
        /\ writers = {}
        /\ clean = TRUE
        /\ nops = 0
        /\ nopens = 0
        /\ reop = [kind |-> "first", at |-> [h \in Handles |-> "idle"],
                   snap |-> [k \in Keys |-> [has |-> FALSE, val |-> "None"]],
                   fresh |-> TRUE, ok |-> TRUE]
        /\ cur = 0
        /\ preempts = 0
        /\ sender = TRUE
        /\ channel = <<>>
        /\ receiver = [lock |-> 0, poisoned |-> FALSE]
        /\ workers = [w \in Workers |-> [pc |-> "lock", job |-> NoJob]]
        /\ main = [pc |-> "serving", next |-> 1]
        /\ ran = <<>>
        /\ streams = [c \in Conns |-> NoStream]

\* ------------------------------------------------------- history helpers
\* the scheduler: a step of h, charged as a preemption when it interrupts
\* another handle in the middle of an operation
Turn(h, budget) ==
    /\ IF cur # 0 /\ cur # h /\ pc[cur] \notin {"idle", "dead", "closed"}
       THEN preempts < budget /\ preempts' = preempts + 1
       ELSE preempts' = preempts
    /\ cur' = h
    /\ reop' = [reop EXCEPT !.fresh = FALSE]

\* a step of the engine thread h: the pool does not move
Thread(h, budget) == Turn(h, budget) /\ UNCHANGED srv

\* the value the history gives a key: "Unset" before its first record
AbsGet(k) == IF vers[k] = <<>> THEN "Unset" ELSE vers[k][Len(vers[k])]

\* the versions of key k, from lo on, that have the value v
Versions(k, lo, v) == {j \in 1 .. Len(vers[k]) : j >= lo /\ vers[k][j] = v}

Outcome(h, l, out) ==
    [op |-> l.op, key |-> l.key, val |-> l.val, out |-> out,
     exp |-> l.exp, cl |-> l.cl,
     lo |-> IF l.op = "get" THEN seen[h][l.key] ELSE 0,
     hi |-> IF l.op = "get" THEN Len(vers[l.key]) ELSE 0]

\* the oldest version a get that returned out can have read
Observed(h, l, out) ==
    IF l.op = "get" /\ Versions(l.key, seen[h][l.key], out) # {}
    THEN [seen EXCEPT ![h][l.key] =
             CHOOSE j \in Versions(l.key, seen[h][l.key], out) :
                 \A i \in Versions(l.key, seen[h][l.key], out) : j <= i]
    ELSE seen

Failed(l, out) == l.op \in {"set", "rm"} /\ out \in {"Io", "Serde", "Panic"}

\* the operation of h returns out
Return(h, l, out) ==
    /\ pc' = [pc EXCEPT ![h] = "idle"]
    /\ loc' = [loc EXCEPT ![h] = NoLoc]
    /\ res' = [res EXCEPT ![h] = Outcome(h, l, out)]
    /\ seen' = Observed(h, l, out)
    /\ clean' = (clean /\ ~Failed(l, out))

\* the thread of h panics
Panic(h, l) ==
    /\ pc' = [pc EXCEPT ![h] = "dead"]
    /\ loc' = [loc EXCEPT ![h] = NoLoc]
    /\ res' = [res EXCEPT ![h] = Outcome(h, l, "Panic")]
    /\ seen' = seen
    /\ clean' = FALSE

\* the operation of h goes on at position p with locals l
Goto(h, p, l) ==
    /\ pc' = [pc EXCEPT ![h] = p]
    /\ loc' = [loc EXCEPT ![h] = l]
    /\ UNCHANGED <<res, seen, clean>>

\* a set or remove of key k is under way
Writing(k) == \E g \in Handles : loc[g].op \in {"set", "rm"} /\ loc[g].key = k

\* the locals of a call, with the history it starts from: the value the key
\* has, and how many versions it has (-1 while the key is being written)
Begin(op, k, v) ==
    [NoLoc EXCEPT !.op = op, !.key = k, !.val = v, !.exp = AbsGet(k), !.cl = clean,
                  !.n = IF Writing(k) THEN -1 ELSE Len(vers[k])]

\* -------------------------------------------------------------------- get
\* Get with the absent key reported as the error of remove
GetKeyNotFound(h, k) ==
    /\ pc[h] = "idle"
    /\ nops' = nops + 1
    /\ IF index[k] = NoEntry
       THEN Return(h, Begin("get", k, "None"), "KeyNotFound")
       ELSE Goto(h, "close_stale", [Begin("get", k, "None") EXCEPT !.off = index[k]])
    /\ UNCHANGED <<exists, disk, wr, lock, poisoned, index, lcp, readers, vers, writers, nopens>>

\* KvStore::get (engines/kvs.rs): a key absent from the index gives Ok(None),
\* any other goes to Store::read with its offset.  The mutex that file wraps
\* around the whole store is the one engines/store.rs keeps inside the Store
\* for the writer alone, so no lock is taken here.
Get(h, k) ==
    /\ pc[h] = "idle"
    /\ nops' = nops + 1
    /\ IF index[k] = NoEntry
       THEN Return(h, Begin("get", k, "None"), "None")
       ELSE Goto(h, "close_stale", [Begin("get", k, "None") EXCEPT !.off = index[k]])
    /\ UNCHANGED <<exists, disk, wr, lock, poisoned, index, lcp, readers, vers, writers, nopens>>

\* Store::close_stale_fds at the head of Store::read: the cached ids below
\* the watermark
StaleIds(h, point) == {id \in readers[h] : id < point}

CloseStale(h) ==
    /\ pc[h] = "close_stale"
    /\ IF StaleIds(h, lcp) = {}
       THEN Goto(h, "read", loc[h])
       ELSE Goto(h, "unlink", [loc[h] EXCEPT !.stale = StaleIds(h, lcp)])
    /\ UNCHANGED <<exists, disk, wr, lock, poisoned, index, lcp, readers, vers,
                   writers, nops, nopens>>

\* Store::close_stale_fds, one turn of its loop: drop the reader, unlink the
\* file; an unlink that fails ends the operation with the I/O error
Unlink(h) ==
    /\ pc[h] = "unlink"
    /\ \E id \in loc[h].stale :
          LET rest == loc[h].stale \ {id}
              writing == loc[h].op \in {"set", "rm"}
          IN  /\ readers' = [readers EXCEPT ![h] = @ \ {id}]
              /\ exists' = exists \ {id}
              /\ IF id \notin exists
                 THEN /\ Return(h, loc[h], "Io")
                      /\ lock' = IF writing THEN 0 ELSE lock
                 ELSE IF rest # {}
                 THEN /\ Goto(h, "unlink", [loc[h] EXCEPT !.stale = rest])
                      /\ lock' = lock
                 ELSE IF writing
                 THEN /\ Return(h, loc[h], "Ok")
                      /\ lock' = 0
                 ELSE /\ Goto(h, "read", [loc[h] EXCEPT !.stale = {}])
                      /\ lock' = lock
    /\ UNCHANGED <<disk, wr, poisoned, index, lcp, vers, writers, nops, nopens>>

\* Store::read after close_stale_fds: open a reader on a cache miss, then
\* Reader::read
Read(h) ==
    /\ pc[h] = "read"
    /\ LET e == loc[h].off
       IN  IF e.file_id \notin readers[h] /\ e.file_id \notin exists
           THEN /\ Return(h, loc[h], "Io")
                /\ readers' = readers
           ELSE /\ Return(h, loc[h], ReaderRead(disk[e.file_id], e.start, e.end))
                /\ readers' = [readers EXCEPT ![h] = @ \cup {e.file_id}]
    /\ UNCHANGED <<exists, disk, wr, lock, poisoned, index, lcp, vers, writers, nops, nopens>>

\* ------------------------------------------------------------------ write
\* WriteAppend entered without waiting for the writer lock
WriteAppendNoLock(h, l) ==
    /\ IF poisoned
       THEN /\ Panic(h, l)
            /\ UNCHANGED <<lock, disk, wr, vers>>
       ELSE /\ lock' = h
            /\ disk' = [disk EXCEPT ![wr.fd] = @ \o l.bytes]
            /\ wr' = [wr EXCEPT !.pos = @ + Len(l.bytes)]
            /\ vers' = [vers EXCEPT ![l.key] = Append(@, l.val)]
            /\ Goto(h, "w_old", [l EXCEPT !.pos = wr.pos,
                                          !.endp = wr.pos + Len(l.bytes),
                                          !.fid = wr.file_id])

\* Store::write, lines 108-111: take the writer lock (a poisoned lock makes
\* unwrap panic), append the record to the file the BufWriter is open on,
\* flush, advance pos
WriteAppend(h, l) ==
    /\ lock = 0
    /\ IF poisoned
       THEN /\ Panic(h, l)
            /\ UNCHANGED <<lock, disk, wr, vers>>
       ELSE /\ lock' = h
            /\ disk' = [disk EXCEPT ![wr.fd] = @ \o l.bytes]
            /\ wr' = [wr EXCEPT !.pos = @ + Len(l.bytes)]
            /\ vers' = [vers EXCEPT ![l.key] = Append(@, l.val)]
            /\ Goto(h, "w_old", [l EXCEPT !.pos = wr.pos,
                                          !.endp = wr.pos + Len(l.bytes),
                                          !.fid = wr.file_id])

\* KvStore::set: encode the Set record and call Store::write
Set(h, k, v) ==
    /\ pc[h] = "idle"
    /\ nops' = nops + 1
    /\ WriteAppend(h, [Begin("set", k, v) EXCEPT !.bytes = EncodeSet(k, v)])
    /\ writers' = writers \cup {h}
    /\ UNCHANGED <<exists, poisoned, index, lcp, readers, nopens>>

\* Store::write, lines 113-115: the bytes of the entry the key had
WriteOld(h) ==
    /\ pc[h] = "w_old"
    /\ wr' = IF index[loc[h].key] # NoEntry
             THEN [wr EXCEPT !.uncompacted = @ + EntryLen(index[loc[h].key])]
             ELSE wr
    /\ Goto(h, "w_insert", loc[h])
    /\ UNCHANGED <<exists, disk, lock, poisoned, index, lcp, readers, vers,
                   writers, nops, nopens>>

\* Store::write, lines 116-118 and 124: insert the entry; return unless the
\* counter is over the threshold
WriteInsert(h) ==
    /\ pc[h] = "w_insert"
    /\ index' = [index EXCEPT ![loc[h].key] =
                     [file_id |-> loc[h].fid, start |-> loc[h].pos, end |-> loc[h].endp]]
    /\ IF wr.uncompacted > COMPACTION_THRESHOLD
       THEN /\ Goto(h, "compact", loc[h])
            /\ lock' = lock
       ELSE /\ Return(h, loc[h], "Ok")
            /\ lock' = 0
    /\ UNCHANGED <<exists, disk, wr, poisoned, lcp, readers, vers, writers, nops, nopens>>

\* ---------------------------------------------------------------- compact
\* Writer::compact, lines 218-225: create the output file file_id + 1 and a
\* reader of it
CompactNew(h) ==
    /\ pc[h] = "compact"
    /\ LET cid == loc[h].fid + 1
       IN  /\ disk' = CreateFile(disk, exists, cid)
           /\ exists' = exists \cup {cid}
           /\ readers' = [readers EXCEPT ![h] = @ \cup {cid}]
           /\ Goto(h, "copy", [loc[h] EXCEPT !.cid = cid, !.cpos = 0,
                                            !.cbuf = <<>>, !.cursor = 0])
    /\ UNCHANGED <<wr, lock, poisoned, index, lcp, vers, writers, nops, nopens>>

\* index.iter(): the positions in key order after the cursor that have an entry
Ahead(cursor) == {i \in (cursor + 1) .. Len(KeyOrder) : index[KeyOrder[i]] # NoEntry}

\* CompactCopy with the copy taken from the head of the source file (no seek)
CompactCopyNoSeek(h) ==
    /\ pc[h] = "copy"
    /\ Ahead(loc[h].cursor) # {}
    /\ LET i == CHOOSE x \in Ahead(loc[h].cursor) : \A y \in Ahead(loc[h].cursor) : x <= y
           k == KeyOrder[i]
           e == index[k]
           b == ReadLimited(disk[e.file_id], 0, e.end - e.start)
       IN  IF e.file_id \notin readers[h]
           THEN /\ Panic(h, loc[h])
                /\ poisoned' = TRUE
                /\ lock' = 0
                /\ disk' = [disk EXCEPT ![loc[h].cid] = @ \o loc[h].cbuf]
                /\ index' = index
           ELSE /\ Goto(h, "copy", [loc[h] EXCEPT !.cbuf = @ \o b,
                                                !.cpos = @ + Len(b),
                                                !.cursor = i])
                /\ index' = [index EXCEPT ![k] =
                                 [file_id |-> loc[h].cid, start |-> loc[h].cpos,
                                  end |-> loc[h].cpos + Len(b)]]
                /\ UNCHANGED <<poisoned, lock, disk>>
    /\ UNCHANGED <<exists, wr, lcp, readers, vers, writers, nops, nopens>>

\* Writer::compact, lines 226-233, one turn of the loop: a missing reader
\* panics (the unwinding drops the BufWriter, which flushes, and poisons the
\* lock); otherwise copy the bytes into the BufWriter and redirect the entry
CompactCopy(h) ==
    /\ pc[h] = "copy"
    /\ Ahead(loc[h].cursor) # {}
    /\ LET i == CHOOSE x \in Ahead(loc[h].cursor) : \A y \in Ahead(loc[h].cursor) : x <= y
           k == KeyOrder[i]
           e == index[k]
           b == ReadLimited(disk[e.file_id], e.start, e.end)
       IN  IF e.file_id \notin readers[h]
           THEN /\ Panic(h, loc[h])
                /\ poisoned' = TRUE
                /\ lock' = 0
                /\ disk' = [disk EXCEPT ![loc[h].cid] = @ \o loc[h].cbuf]
                /\ index' = index
           ELSE /\ Goto(h, "copy", [loc[h] EXCEPT !.cbuf = @ \o b,
                                                !.cpos = @ + Len(b),
                                                !.cursor = i])
                /\ index' = [index EXCEPT ![k] =
                                 [file_id |-> loc[h].cid, start |-> loc[h].cpos,
                                  end |-> loc[h].cpos + Len(b)]]
                /\ UNCHANGED <<poisoned, lock, disk>>
    /\ UNCHANGED <<exists, wr, lcp, readers, vers, writers, nops, nopens>>

\* Writer::compact, line 234: flush the output
CompactFlush(h) ==
    /\ pc[h] = "copy"
    /\ Ahead(loc[h].cursor) = {}
    /\ disk' = [disk EXCEPT ![loc[h].cid] = @ \o loc[h].cbuf]
    /\ Goto(h, "switch", [loc[h] EXCEPT !.cbuf = <<>>])
    /\ UNCHANGED <<exists, wr, lock, poisoned, index, lcp, readers, vers, writers, nops, nopens>>

\* CompactSwitch with the counter of stale bytes left as it is
CompactSwitchKeepsCounter(h) ==
    /\ pc[h] = "switch"
    /\ LET n == loc[h].cid + 1
       IN  /\ disk' = CreateFile(disk, exists, n)
           /\ exists' = exists \cup {n}
           /\ wr' = [wr EXCEPT !.fd = n, !.pos = 0]
           /\ readers' = [readers EXCEPT ![h] = @ \cup {n}]
    /\ Goto(h, "store", loc[h])
    /\ UNCHANGED <<lock, poisoned, index, lcp, vers, writers, nops, nopens>>

\* Writer::compact, lines 236-242: the BufWriter now appends to file
\* compaction_file_id + 1; pos and uncompacted restart at 0; file_id is not
\* assigned
CompactSwitch(h) ==
    /\ pc[h] = "switch"
    /\ LET n == loc[h].cid + 1
       IN  /\ disk' = CreateFile(disk, exists, n)
           /\ exists' = exists \cup {n}
           /\ wr' = [wr EXCEPT !.fd = n, !.pos = 0, !.uncompacted = 0]
           /\ readers' = [readers EXCEPT ![h] = @ \cup {n}]
    /\ Goto(h, "store", loc[h])
    /\ UNCHANGED <<lock, poisoned, index, lcp, vers, writers, nops, nopens>>

\* Store::write, lines 120-121: store the watermark, then close_stale_fds
\* (its load of the watermark and its list of stale ids)
StoreWatermark(h) ==
    /\ pc[h] = "store"
    /\ lcp' = loc[h].cid
    /\ IF StaleIds(h, loc[h].cid) = {}
       THEN /\ Return(h, loc[h], "Ok")
            /\ lock' = 0
       ELSE /\ Goto(h, "unlink", [loc[h] EXCEPT !.stale = StaleIds(h, loc[h].cid)])
            /\ lock' = lock
    /\ UNCHANGED <<exists, disk, wr, poisoned, index, readers, vers, writers, nops, nopens>>

\* --------------------------------------------------- compaction, I/O errors
\* Store::write, line 119: Writer::compact returns an I/O error, `?` returns
\* it from the write and the guard is dropped
CompactErr(h) ==
    /\ Return(h, loc[h], "Io")
    /\ lock' = 0
    /\ UNCHANGED <<exists, wr, poisoned, index, lcp, readers, vers, writers, nops, nopens>>

\* Writer::compact, line 220: opening the output file fails
CompactNewFails(h) ==
    /\ pc[h] = "compact"
    /\ clean
    /\ disk' = disk
    /\ CompactErr(h)

\* Writer::compact, line 229: read_into fails; the BufWriter of the output is
\* dropped with the function's locals, and its drop writes what it holds
CompactCopyFails(h) ==
    /\ pc[h] = "copy"
    /\ Ahead(loc[h].cursor) # {}
    /\ clean
    /\ disk' = [disk EXCEPT ![loc[h].cid] = @ \o loc[h].cbuf]
    /\ CompactErr(h)

\* Writer::compact, line 234: the flush fails; the drop of the BufWriter
\* tries once more, and its own error is ignored
CompactFlushFails(h) ==
    /\ pc[h] = "copy"
    /\ Ahead(loc[h].cursor) = {}
    /\ clean
    /\ \E written \in BOOLEAN :
          disk' = IF written THEN [disk EXCEPT ![loc[h].cid] = @ \o loc[h].cbuf]
                  ELSE disk
    /\ CompactErr(h)

\* Writer::compact, line 237: init_writer of the new active file fails
CompactSwitchFails(h) ==
    /\ pc[h] = "switch"
    /\ clean
    /\ disk' = disk
    /\ CompactErr(h)

\* ----------------------------------------------------------------- remove
\* Store::remove, lines 128-134: the absence check
Remove(h, k) ==
    /\ pc[h] = "idle"
    /\ nops' = nops + 1
    /\ IF index[k] = NoEntry
       THEN Return(h, Begin("rm", k, "None"), "KeyNotFound")
       ELSE Goto(h, "rm_index", [Begin("rm", k, "None") EXCEPT !.bytes = EncodeRm(k)])
    /\ writers' = writers \cup {h}
    /\ UNCHANGED <<exists, disk, wr, lock, poisoned, index, lcp, readers, vers, nopens>>

\* Store::remove, line 136: index.remove
RemoveIndex(h) ==
    /\ pc[h] = "rm_index"
    /\ index' = [index EXCEPT ![loc[h].key] = NoEntry]
    /\ IF index[loc[h].key] # NoEntry
       THEN Goto(h, "rm_unc", [loc[h] EXCEPT !.off = index[loc[h].key]])
       ELSE Goto(h, "w_lock", loc[h])
    /\ UNCHANGED <<exists, disk, wr, lock, poisoned, lcp, readers, vers, writers, nops, nopens>>

\* Store::remove, line 137: lock the writer for the one statement that adds
\* the removed entry's bytes to the counter
RemoveUncompacted(h) ==
    /\ pc[h] = "rm_unc"
    /\ lock = 0
    /\ IF poisoned
       THEN /\ Panic(h, loc[h])
            /\ wr' = wr
       ELSE /\ wr' = [wr EXCEPT !.uncompacted = @ + EntryLen(loc[h].off)]
            /\ Goto(h, "w_lock", [loc[h] EXCEPT !.off = NoEntry])
    /\ UNCHANGED <<exists, disk, lock, poisoned, index, lcp, readers, vers, writers, nops, nopens>>

\* Store::remove, line 139: self.write(key, b)
RemoveWrite(h) ==
    /\ pc[h] = "w_lock"
    /\ WriteAppend(h, loc[h])
    /\ UNCHANGED <<exists, poisoned, index, lcp, readers, writers, nops, nopens>>

\* ------------------------------------------------------------------ reopen
\* what get(k) returns through a handle that has just been cloned (its
\* reader cache is empty, so close_stale_fds has nothing to do)
Peek(k) ==
    LET e == index[k]
    IN  IF e = NoEntry THEN "None"
        ELSE IF e.file_id \notin exists THEN "Io"
        ELSE ReaderRead(disk[e.file_id], e.start, e.end)

Quiet == \A h \in Handles : pc[h] \in {"idle", "dead", "closed"}

\* the process ends (every handle is dropped, or the process is killed at
\* any point: bytes a BufWriter still holds are lost) and Store::new is run
\* on the same directory
ReopenWithin(n) ==
    /\ nopens < n
    /\ LET s == StoreNew(disk, exists)
       IN  /\ exists' = s.exists
           /\ disk' = s.disk
           /\ wr' = s.wr
           /\ index' = IF s.ok THEN s.index ELSE EmptyIndex
           /\ readers' = s.readers
           /\ pc' = [h \in Handles |-> IF s.ok THEN "idle" ELSE "closed"]
           /\ reop' = [kind |-> IF Quiet THEN "clean" ELSE "crash",
                       at |-> pc,
                       snap |-> [k \in Keys |-> [has |-> index[k] # NoEntry,
                                                 val |-> Peek(k)]],
                       fresh |-> TRUE, ok |-> s.ok]
    /\ lock' = 0
    /\ poisoned' = FALSE
    /\ lcp' = 0
    /\ loc' = [h \in Handles |-> NoLoc]
    /\ res' = [h \in Handles |-> NoRes]
    /\ nops' = nops + 1
    /\ nopens' = nopens + 1
    /\ cur' = 0
    /\ seen' = [h \in Handles |-> [k \in Keys |-> 0]]
    /\ UNCHANGED <<vers, writers, clean, preempts>>

Reopen == ReopenWithin(MaxOpens)

\* ------------------------------------------------------------- thread pool
\* every worker thread has panicked: the closures that held the Arc of the
\* receiver are gone and the Receiver is dropped
Disconnected == \A w \in Workers : workers[w].pc = "panicked"

\* ThreadPool::execute: box the closure and send it; the unwrap panics when
\* the send fails
Execute(kind) ==
    /\ main.pc = "serving"
    /\ Len(ran) + Len(channel) < MaxJobs
    /\ IF Disconnected
       THEN /\ main' = [main EXCEPT !.pc = "panicked"]
            /\ channel' = channel
       ELSE /\ channel' = Append(channel, [id |-> Len(ran) + Len(channel) + 1,
                                           kind |-> kind, conn |-> 0])
            /\ main' = main
    /\ UNCHANGED <<sender, receiver, workers, ran, streams>>

\* Worker::new, line 18: receiver.lock().unwrap(); the guard lives to the
\* end of the match
WorkerLock(w) ==
    /\ workers[w].pc = "lock"
    /\ receiver.lock = 0
    /\ IF receiver.poisoned
       THEN /\ workers' = [workers EXCEPT ![w].pc = "panicked"]
            /\ receiver' = receiver
       ELSE /\ workers' = [workers EXCEPT ![w].pc = "recv"]
            /\ receiver' = [receiver EXCEPT !.lock = w]
    /\ UNCHANGED <<sender, channel, main, ran, streams>>

\* RecvJob with the job left at the head of the channel
RecvJobPeek(w) ==
    /\ workers[w].pc = "recv"
    /\ channel # <<>>
    /\ workers' = [workers EXCEPT ![w] = [pc |-> "run", job |-> Head(channel)]]
    /\ channel' = channel
    /\ ran' = Append(ran, [id |-> Head(channel).id, worker |-> w])
    /\ UNCHANGED <<sender, receiver, main, streams>>

\* Worker::new, lines 18-20: recv() returns Ok(job)
RecvJob(w) ==
    /\ workers[w].pc = "recv"
    /\ channel # <<>>
    /\ workers' = [workers EXCEPT ![w] = [pc |-> "run", job |-> Head(channel)]]
    /\ channel' = Tail(channel)
    /\ ran' = Append(ran, [id |-> Head(channel).id, worker |-> w])
    /\ UNCHANGED <<sender, receiver, main, streams>>

\* Worker::new, lines 22-23: recv() returns Err once the sender is dropped
\* and the channel is empty; the arm is empty and the loop goes on
RecvErr(w) ==
    /\ workers[w].pc = "recv"
    /\ channel = <<>>
    /\ ~sender
    /\ workers' = [workers EXCEPT ![w].pc = "lock"]
    /\ receiver' = [receiver EXCEPT !.lock = 0]
    /\ UNCHANGED <<sender, channel, main, ran, streams>>

\* Worker::new, line 20: job() returns; the guard is dropped at the end of
\* the match and the loop goes on
JobReturns(w) ==
    /\ workers[w].pc = "run"
    /\ workers[w].job.kind = "return"
    /\ workers' = [workers EXCEPT ![w] = [pc |-> "lock", job |-> NoJob]]
    /\ receiver' = [receiver EXCEPT !.lock = 0]
    /\ UNCHANGED <<sender, channel, main, ran, streams>>

\* Worker::new, line 20: job() panics; the thread unwinds with the guard
\* alive, which poisons the Mutex of the receiver
JobPanics(w) ==
    /\ workers[w].pc = "run"
    /\ workers[w].job.kind = "panic"
    /\ workers' = [workers EXCEPT ![w] = [pc |-> "panicked", job |-> NoJob]]
    /\ receiver' = [lock |-> 0, poisoned |-> TRUE]
    /\ UNCHANGED <<sender, channel, main, ran, streams>>

\* Drop for ThreadPool, line 63: drop(self.sender.take())
DropSender ==
    /\ main.pc = "serving"
    /\ sender' = FALSE
    /\ main' = [pc |-> "join", next |-> 1]
    /\ UNCHANGED <<channel, receiver, workers, ran, streams>>

\* Drop for ThreadPool, lines 65-67: join() returns when the thread of the
\* worker has ended, Err when it ended by a panic, and the unwrap panics
Join ==
    /\ main.pc = "join"
    /\ workers[main.next].pc \in {"exited", "panicked"}
    /\ main' = IF workers[main.next].pc = "panicked"
               THEN [main EXCEPT !.pc = "panicked"]
               ELSE IF main.next = NumWorkers
               THEN [main EXCEPT !.pc = "dropped"]
               ELSE [main EXCEPT !.next = @ + 1]
    /\ UNCHANGED <<sender, channel, receiver, workers, ran, streams>>

\* ------------------------------------------------------------------ server
\* the requests the clients send, on one key and with one value
Requests ==
    {[op |-> "get", key |-> "a", val |-> "None"],
     [op |-> "set", key |-> "a", val |-> "x"],
     [op |-> "rm", key |-> "a", val |-> "None"]}

\* the bytes of a request the peer did not finish
Partial == [op |-> "partial", key |-> "None", val |-> "None"]

\* the engine handle of the connection being served: a clone of the handle
\* that KvsServer owns (a worker holds the lock of the receiver while it runs
\* a job, so one clone is in use at a time)
EngineClone == CHOOSE h \in Handles : h # 1

RECURSIVE SentUpTo(_)
\* requests sent on the connections 1 .. c
SentUpTo(c) ==
    IF c = 0 THEN 0
    ELSE Len(streams[c].reqs) + Len(streams[c].inp) + SentUpTo(c - 1)

\* Error::to_string: the Display that error.rs derives; Store::remove builds
\* DoesNotExist with the Debug form of the key
Display(out, k) ==
    CASE out = "KeyNotFound" -> "key: \"" \o k \o "\" does not exist"
      [] out = "Io" -> "No such file or directory (os error 2)"
      [] out = "Serde" -> "EOF while parsing a value at line 1 column 0"
      [] OTHER -> out

ResponseOk(v) == [tag |-> "Ok", val |-> v, msg |-> ""]
ResponseErr(m) == [tag |-> "Err", val |-> "None", msg |-> m]

\* handle_client, lines 61-87: the response built from the engine's result
ResponseOf(r) ==
    IF r.op = "get"
    THEN IF r.out \in Vals \cup {"None"}
         THEN ResponseOk(r.out)
         ELSE ResponseErr(Display(r.out, r.key))
    ELSE IF r.out = "Ok"
         THEN ResponseOk("None")
         ELSE ResponseErr(Display(r.out, r.key))

\* KvsServer::run, lines 37-42: accept a connection, clone the engine, hand
\* the closure that serves it to the pool
Accept(c) ==
    /\ main.pc = "serving"
    /\ streams[c].state = "none"
    /\ \A d \in Conns : d < c => streams[d].state # "none"
    /\ IF Disconnected
       THEN /\ main' = [main EXCEPT !.pc = "panicked"]
            /\ channel' = channel
            /\ streams' = [streams EXCEPT ![c].state = "dropped"]
       ELSE /\ channel' = Append(channel, [id |-> Len(ran) + Len(channel) + 1,
                                           kind |-> "conn", conn |-> c])
            /\ main' = main
            /\ streams' = [streams EXCEPT ![c].state = "open"]
    /\ UNCHANGED <<sender, receiver, workers, ran>>

\* the peer sends one whole request
ClientSend(c, r) ==
    /\ streams[c].state = "open"
    /\ streams[c].peer = "open"
    /\ SentUpTo(NumConns) < MaxReqs
    /\ streams' = [streams EXCEPT ![c].inp = Append(@, r)]
    /\ UNCHANGED <<sender, channel, receiver, workers, main, ran>>

\* the peer closes the connection between two requests
ClientClose(c) ==
    /\ streams[c].state = "open"
    /\ streams[c].peer = "open"
    /\ streams' = [streams EXCEPT ![c].peer = "closed"]
    /\ UNCHANGED <<sender, channel, receiver, workers, main, ran>>

\* the peer closes the connection in the middle of a request
ClientAbort(c) ==
    /\ streams[c].state = "open"
    /\ streams[c].peer = "open"
    /\ SentUpTo(NumConns) < MaxReqs
    /\ streams' = [streams EXCEPT ![c].peer = "closed", ![c].inp = Append(@, Partial)]
    /\ UNCHANGED <<sender, channel, receiver, workers, main, ran>>

\* KvsServer::run, line 41, in the worker: the closure calls handle_client
\* with its clone of the engine, whose reader cache is empty (Clone for Store)
HandleClient(w) ==
    /\ workers[w].pc = "run"
    /\ workers[w].job.kind = "conn"
    /\ workers' = [workers EXCEPT ![w].pc = "decode"]
    /\ readers' = [readers EXCEPT ![EngineClone] = {}]
    /\ res' = [res EXCEPT ![EngineClone] = NoRes]
    /\ UNCHANGED <<exists, disk, wr, lock, poisoned, index, lcp, pc, loc, vers, seen,
                   writers, clean, nops, nopens, reop, cur, preempts>>
    /\ UNCHANGED <<sender, channel, receiver, main, ran, streams>>

\* KvsServer::run, line 41: handle_client returned Err and the unwrap panics
\* in the worker's thread, or the engine panicked in it; the thread unwinds
\* with the guard of the receiver alive and the stream is dropped
ServePanics(w) ==
    /\ workers' = [workers EXCEPT ![w] = [pc |-> "panicked", job |-> NoJob]]
    /\ receiver' = [lock |-> 0, poisoned |-> TRUE]
    /\ UNCHANGED <<sender, channel, main, ran>>

\* handle_client, lines 58-59: the peer closed in the middle of a request,
\* the decode fails and `req?` returns the error
DecodeFails(w) ==
    /\ workers[w].pc = "decode"
    /\ LET c == workers[w].job.conn
       IN  /\ streams[c].inp # <<>>
           /\ Head(streams[c].inp) = Partial
           /\ streams' = [streams EXCEPT ![c].state = "failed", ![c].inp = Tail(@)]
    /\ ServePanics(w)
    /\ UNCHANGED evars

\* handle_client, lines 58 and 90: the peer closed between two requests, the
\* iterator ends and handle_client returns Ok(())
EndOfStream(w) ==
    /\ workers[w].pc = "decode"
    /\ LET c == workers[w].job.conn
       IN  /\ streams[c].inp = <<>>
           /\ streams[c].peer = "closed"
           /\ streams' = [streams EXCEPT ![c].state = "done"]
    /\ workers' = [workers EXCEPT ![w] = [pc |-> "lock", job |-> NoJob]]
    /\ receiver' = [receiver EXCEPT !.lock = 0]
    /\ UNCHANGED <<sender, channel, main, ran>>
    /\ UNCHANGED evars

\* handle_client, lines 58-60: decode the next request; w goes on to the
\* engine call of the matching arm
Decoded(w, op) ==
    /\ workers[w].pc = "decode"
    /\ LET c == workers[w].job.conn
       IN  /\ streams[c].inp # <<>>
           /\ Head(streams[c].inp).op = op
           /\ streams' = [streams EXCEPT
                  ![c].reqs = Append(@, [op |-> op,
                                         key |-> Head(streams[c].inp).key,
                                         val |-> Head(streams[c].inp).val,
                                         exp |-> AbsGet(Head(streams[c].inp).key)]),
                  ![c].inp = Tail(@)]
    /\ workers' = [workers EXCEPT ![w].pc = "engine"]
    /\ Turn(EngineClone, 0)
    /\ UNCHANGED <<sender, channel, receiver, main, ran>>

\* handle_client, lines 61-62: engine.get(key)
DispatchGet(w) ==
    /\ Decoded(w, "get")
    /\ Get(EngineClone, Head(streams[workers[w].job.conn].inp).key)

\* handle_client, lines 70-71: engine.set(key, val)
DispatchSet(w) ==
    /\ Decoded(w, "set")
    /\ Set(EngineClone, Head(streams[workers[w].job.conn].inp).key,
           Head(streams[workers[w].job.conn].inp).val)

\* handle_client, lines 79-80: engine.remove(key)
DispatchRm(w) ==
    /\ Decoded(w, "rm")
    /\ Remove(EngineClone, Head(streams[workers[w].job.conn].inp).key)

\* w is inside the engine call of the request it decoded
InEngine(w) == workers[w].pc = "engine"

\* handle_client, lines 62-68, 71-77, 80-86: the engine call has returned;
\* encode the response, write_all and flush, then decode the next request
Respond(w) ==
    /\ InEngine(w)
    /\ pc[EngineClone] = "idle"
    /\ streams' = [streams EXCEPT ![workers[w].job.conn].out =
                       Append(@, ResponseOf(res[EngineClone]))]
    /\ workers' = [workers EXCEPT ![w].pc = "decode"]
    /\ UNCHANGED <<sender, channel, receiver, main, ran>>
    /\ UNCHANGED evars

\* handle_client, lines 67, 76, 85: the peer has closed and write_all fails;
\* the `?` returns the error
RespondFails(w) ==
    /\ InEngine(w)
    /\ pc[EngineClone] = "idle"
    /\ streams[workers[w].job.conn].peer = "closed"
    /\ streams' = [streams EXCEPT ![workers[w].job.conn].state = "failed"]
    /\ ServePanics(w)
    /\ UNCHANGED evars

\* the engine call panicked (Writer::compact, or the unwrap of a poisoned
\* writer lock) in the worker's thread
EnginePanics(w) ==
    /\ InEngine(w)
    /\ pc[EngineClone] = "dead"
    /\ streams' = [streams EXCEPT ![workers[w].job.conn].state = "aborted"]
    /\ ServePanics(w)
    /\ UNCHANGED evars

\* --------------------------------------------------------- specifications
\* h calls an operation: one more of at most limit
CallTurn(h, budget, limit) == nops < limit /\ Thread(h, budget)

\* the threads of one process: operations of different handles interleave
\* step by step
Next ==
    \/ \E h \in Handles, k \in Keys : CallTurn(h, MaxPreempt, ConcOps) /\ Get(h, k)
    \/ \E h \in Handles, k \in Keys, v \in Vals : CallTurn(h, MaxPreempt, ConcOps) /\ Set(h, k, v)
    \/ \E h \in Handles, k \in Keys : CallTurn(h, MaxPreempt, ConcOps) /\ Remove(h, k)
    \/ \E h \in Handles : Thread(h, MaxPreempt) /\ CloseStale(h)
    \/ \E h \in Handles : Thread(h, MaxPreempt) /\ Unlink(h)
    \/ \E h \in Handles : Thread(h, MaxPreempt) /\ Read(h)
    \/ \E h \in Handles : Thread(h, MaxPreempt) /\ WriteOld(h)
    \/ \E h \in Handles : Thread(h, MaxPreempt) /\ WriteInsert(h)
    \/ \E h \in Handles : Thread(h, MaxPreempt) /\ CompactNew(h)
    \/ \E h \in Handles : Thread(h, MaxPreempt) /\ CompactCopy(h)
    \/ \E h \in Handles : Thread(h, MaxPreempt) /\ CompactFlush(h)
    \/ \E h \in Handles : Thread(h, MaxPreempt) /\ CompactSwitch(h)
    \/ \E h \in Handles : Thread(h, MaxPreempt) /\ StoreWatermark(h)
    \/ \E h \in Handles : Thread(h, MaxPreempt) /\ RemoveIndex(h)
    \/ \E h \in Handles : Thread(h, MaxPreempt) /\ RemoveUncompacted(h)
    \/ \E h \in Handles : Thread(h, MaxPreempt) /\ RemoveWrite(h)

Spec == Init /\ [][Next]_vars

\* every operation runs to its end before the next one starts; the engine
\* may be dropped between two operations and the directory opened again
NextSeq ==
    \/ \E h \in Handles, k \in Keys : CallTurn(h, 0, MaxOps) /\ Get(h, k)
    \/ \E h \in Handles, k \in Keys, v \in Vals : CallTurn(h, 0, MaxOps) /\ Set(h, k, v)
    \/ \E h \in Handles, k \in Keys : CallTurn(h, 0, MaxOps) /\ Remove(h, k)
    \/ \E h \in Handles : Thread(h, 0) /\ CloseStale(h)
    \/ \E h \in Handles : Thread(h, 0) /\ Unlink(h)
    \/ \E h \in Handles : Thread(h, 0) /\ Read(h)
    \/ \E h \in Handles : Thread(h, 0) /\ WriteOld(h)
    \/ \E h \in Handles : Thread(h, 0) /\ WriteInsert(h)
    \/ \E h \in Handles : Thread(h, 0) /\ CompactNew(h)
    \/ \E h \in Handles : Thread(h, 0) /\ CompactCopy(h)
    \/ \E h \in Handles : Thread(h, 0) /\ CompactFlush(h)
    \/ \E h \in Handles : Thread(h, 0) /\ CompactSwitch(h)
    \/ \E h \in Handles : Thread(h, 0) /\ StoreWatermark(h)
    \/ \E h \in Handles : Thread(h, 0) /\ RemoveIndex(h)
    \/ \E h \in Handles : Thread(h, 0) /\ RemoveUncompacted(h)
    \/ \E h \in Handles : Thread(h, 0) /\ RemoveWrite(h)
    \/ nops < MaxOps /\ Quiet /\ Reopen /\ UNCHANGED srv

SpecSeq == Init /\ [][NextSeq]_vars

\* longer histories on the one key "a" and the one value "x"; the process
\* may also be killed at any point before the directory is opened again
NextOneKey ==
    \/ \E h \in Handles, k \in {"a"} : CallTurn(h, 0, DeepOps) /\ Get(h, k)
    \/ \E h \in Handles, k \in {"a"}, v \in {"x"} : CallTurn(h, 0, DeepOps) /\ Set(h, k, v)
    \/ \E h \in Handles, k \in {"a"} : CallTurn(h, 0, DeepOps) /\ Remove(h, k)
    \/ \E h \in Handles : Thread(h, 0) /\ CloseStale(h)
    \/ \E h \in Handles : Thread(h, 0) /\ Unlink(h)
    \/ \E h \in Handles : Thread(h, 0) /\ Read(h)
    \/ \E h \in Handles : Thread(h, 0) /\ WriteOld(h)
    \/ \E h \in Handles : Thread(h, 0) /\ WriteInsert(h)
    \/ \E h \in Handles : Thread(h, 0) /\ CompactNew(h)
    \/ \E h \in Handles : Thread(h, 0) /\ CompactCopy(h)
    \/ \E h \in Handles : Thread(h, 0) /\ CompactFlush(h)
    \/ \E h \in Handles : Thread(h, 0) /\ CompactSwitch(h)
    \/ \E h \in Handles : Thread(h, 0) /\ StoreWatermark(h)
    \/ \E h \in Handles : Thread(h, 0) /\ RemoveIndex(h)
    \/ \E h \in Handles : Thread(h, 0) /\ RemoveUncompacted(h)
    \/ \E h \in Handles : Thread(h, 0) /\ RemoveWrite(h)
    \/ nops < DeepOps /\ Reopen /\ UNCHANGED srv

SpecOneKey == Init /\ [][NextOneKey]_vars

\* one writer thread (handle 1) performing set("a", v), the other handles
\* reader threads calling get("a")
NextOneWriter ==
    \/ \E v \in Vals : CallTurn(1, MaxPreempt + 1, RoleOps) /\ Set(1, "a", v)
    \/ \E h \in Handles \ {1} : CallTurn(h, MaxPreempt + 1, RoleOps) /\ Get(h, "a")
    \/ \E h \in Handles : Thread(h, MaxPreempt + 1) /\ CloseStale(h)
    \/ \E h \in Handles : Thread(h, MaxPreempt + 1) /\ Unlink(h)
    \/ \E h \in Handles : Thread(h, MaxPreempt + 1) /\ Read(h)
    \/ \E h \in Handles : Thread(h, MaxPreempt + 1) /\ WriteOld(h)
    \/ \E h \in Handles : Thread(h, MaxPreempt + 1) /\ WriteInsert(h)
    \/ \E h \in Handles : Thread(h, MaxPreempt + 1) /\ CompactNew(h)
    \/ \E h \in Handles : Thread(h, MaxPreempt + 1) /\ CompactCopy(h)
    \/ \E h \in Handles : Thread(h, MaxPreempt + 1) /\ CompactFlush(h)
    \/ \E h \in Handles : Thread(h, MaxPreempt + 1) /\ CompactSwitch(h)
    \/ \E h \in Handles : Thread(h, MaxPreempt + 1) /\ StoreWatermark(h)

SpecOneWriter == Init /\ [][NextOneWriter]_vars

\* one writer thread (handle 1) performing set on any key, the other handles
\* reader threads calling get on any key
NextWriterReaders ==
    \/ \E k \in Keys, v \in Vals : CallTurn(1, MaxPreempt, RoleOps) /\ Set(1, k, v)
    \/ \E h \in Handles \ {1}, k \in Keys : CallTurn(h, MaxPreempt, RoleOps) /\ Get(h, k)
    \/ \E h \in Handles : Thread(h, MaxPreempt) /\ CloseStale(h)
    \/ \E h \in Handles : Thread(h, MaxPreempt) /\ Unlink(h)
    \/ \E h \in Handles : Thread(h, MaxPreempt) /\ Read(h)
    \/ \E h \in Handles : Thread(h, MaxPreempt) /\ WriteOld(h)
    \/ \E h \in Handles : Thread(h, MaxPreempt) /\ WriteInsert(h)
    \/ \E h \in Handles : Thread(h, MaxPreempt) /\ CompactNew(h)
    \/ \E h \in Handles : Thread(h, MaxPreempt) /\ CompactCopy(h)
    \/ \E h \in Handles : Thread(h, MaxPreempt) /\ CompactFlush(h)
    \/ \E h \in Handles : Thread(h, MaxPreempt) /\ CompactSwitch(h)
    \/ \E h \in Handles : Thread(h, MaxPreempt) /\ StoreWatermark(h)

SpecWriterReaders == Init /\ [][NextWriterReaders]_vars

\* a long life of one key and one value: a writer thread (handle 1), reader
\* threads, and a clean restart of the process between two operations
NextLongLife ==
    \/ CallTurn(1, MaxPreempt, LongOps) /\ Set(1, "a", "x")
    \/ \E h \in Handles \ {1} : CallTurn(h, MaxPreempt, LongOps) /\ Get(h, "a")
    \/ \E h \in Handles : Thread(h, MaxPreempt) /\ CloseStale(h)
    \/ \E h \in Handles : Thread(h, MaxPreempt) /\ Unlink(h)
    \/ \E h \in Handles : Thread(h, MaxPreempt) /\ Read(h)
    \/ \E h \in Handles : Thread(h, MaxPreempt) /\ WriteOld(h)
    \/ \E h \in Handles : Thread(h, MaxPreempt) /\ WriteInsert(h)
    \/ \E h \in Handles : Thread(h, MaxPreempt) /\ CompactNew(h)
    \/ \E h \in Handles : Thread(h, MaxPreempt) /\ CompactCopy(h)
    \/ \E h \in Handles : Thread(h, MaxPreempt) /\ CompactFlush(h)
    \/ \E h \in Handles : Thread(h, MaxPreempt) /\ CompactSwitch(h)
    \/ \E h \in Handles : Thread(h, MaxPreempt) /\ StoreWatermark(h)
    \/ nops < LongOps /\ Quiet /\ Reopen /\ UNCHANGED srv

SpecLongLife == Init /\ [][NextLongLife]_vars

\* one thread on the handle Store::new returned, and a file system that
\* fails one call of a compaction
NextFaulty ==
    \/ \E k \in Keys : CallTurn(1, 0, MaxOps) /\ Get(1, k)
    \/ \E k \in Keys, v \in Vals : CallTurn(1, 0, MaxOps) /\ Set(1, k, v)
    \/ Thread(1, 0) /\ CloseStale(1)
    \/ Thread(1, 0) /\ Unlink(1)
    \/ Thread(1, 0) /\ Read(1)
    \/ Thread(1, 0) /\ WriteOld(1)
    \/ Thread(1, 0) /\ WriteInsert(1)
    \/ Thread(1, 0) /\ CompactNew(1)
    \/ Thread(1, 0) /\ CompactCopy(1)
    \/ Thread(1, 0) /\ CompactFlush(1)
    \/ Thread(1, 0) /\ CompactSwitch(1)
    \/ Thread(1, 0) /\ StoreWatermark(1)
    \/ Thread(1, 0) /\ CompactNewFails(1)
    \/ Thread(1, 0) /\ CompactCopyFails(1)
    \/ Thread(1, 0) /\ CompactFlushFails(1)
    \/ Thread(1, 0) /\ CompactSwitchFails(1)

SpecFaulty == Init /\ [][NextFaulty]_vars

\* one thread on the handle Store::new returned, writing two keys with one
\* value, in a process that is restarted or killed more than once
NextRestarts ==
    \/ \E k \in Keys : CallTurn(1, 0, DeepOps) /\ Set(1, k, "x")
    \/ \E k \in Keys : CallTurn(1, 0, DeepOps) /\ Remove(1, k)
    \/ Thread(1, 0) /\ Unlink(1)
    \/ Thread(1, 0) /\ WriteOld(1)
    \/ Thread(1, 0) /\ WriteInsert(1)
    \/ Thread(1, 0) /\ CompactNew(1)
    \/ Thread(1, 0) /\ CompactCopy(1)
    \/ Thread(1, 0) /\ CompactFlush(1)
    \/ Thread(1, 0) /\ CompactSwitch(1)
    \/ Thread(1, 0) /\ StoreWatermark(1)
    \/ Thread(1, 0) /\ RemoveIndex(1)
    \/ Thread(1, 0) /\ RemoveUncompacted(1)
    \/ Thread(1, 0) /\ RemoveWrite(1)
    \/ nops < DeepOps /\ ReopenWithin(MaxOpens + 1) /\ UNCHANGED srv

SpecRestarts == Init /\ [][NextRestarts]_vars

\* the records a segment can hold, and the segments of at most n records
Records == {EncodeSet(k, v) : k \in Keys, v \in Vals} \cup {EncodeRm(k) : k \in Keys}

RECURSIVE Concat(_)
Concat(ss) == IF ss = <<>> THEN <<>> ELSE Head(ss) \o Concat(Tail(ss))

Segments(n) == {Concat(ss) : ss \in UNION {[1 .. m -> Records] : m \in 0 .. n}}

\* a process that has not opened its directory yet; earlier processes have
\* left the segment files 1.log and 2.log there
InitReplay ==
    /\ exists = {1, 2}
    /\ \E c1 \in Segments(MaxRecs), c2 \in Segments(MaxRecs) : disk = <<c1, c2>>
    /\ wr = [file_id |-> 0, fd |-> 0, pos |-> 0, uncompacted |-> 0]
    /\ lock = 0
    /\ poisoned = FALSE
    /\ index = EmptyIndex
    /\ lcp = 0
    /\ readers = [h \in Handles |-> {}]
    /\ pc = [h \in Handles |-> "closed"]
    /\ loc = [h \in Handles |-> NoLoc]
    /\ res = [h \in Handles |-> NoRes]
    /\ vers = [k \in Keys |-> <<>>]
    /\ seen = [h \in Handles |-> [k \in Keys |-> 0]]
    /\ writers = {}
    /\ clean = TRUE
    /\ nops = 0
    /\ nopens = 0
    /\ reop = [kind |-> "first", at |-> [h \in Handles |-> "closed"],
               snap |-> [k \in Keys |-> [has |-> FALSE, val |-> "None"]],
               fresh |-> FALSE, ok |-> TRUE]
    /\ cur = 0
    /\ preempts = 0
    /\ sender = TRUE
    /\ channel = <<>>
    /\ receiver = [lock |-> 0, poisoned |-> FALSE]
    /\ workers = [w \in Workers |-> [pc |-> "lock", job |-> NoJob]]
    /\ main = [pc |-> "serving", next |-> 1]
    /\ ran = <<>>
    /\ streams = [c \in Conns |-> NoStream]

\* Store::new on that directory
NextReplay == Reopen /\ UNCHANGED srv

SpecReplay == InitReplay /\ [][NextReplay]_vars

\* a pool of workers given closures that return or panic, then dropped
WorkerStep ==
    \E w \in Workers :
        WorkerLock(w) \/ RecvJob(w) \/ RecvErr(w) \/ JobReturns(w) \/ JobPanics(w)

NextPool ==
    \/ \E kind \in {"return", "panic"} : Execute(kind) /\ UNCHANGED evars
    \/ \E w \in Workers : WorkerLock(w) /\ UNCHANGED evars
    \/ \E w \in Workers : RecvJob(w) /\ UNCHANGED evars
    \/ \E w \in Workers : RecvErr(w) /\ UNCHANGED evars
    \/ \E w \in Workers : JobReturns(w) /\ UNCHANGED evars
    \/ \E w \in Workers : JobPanics(w) /\ UNCHANGED evars
    \/ DropSender /\ UNCHANGED evars
    \/ Join /\ UNCHANGED evars

\* the threads are scheduled: a worker that can take a step, and a join that
\* can return, are not put off for ever
SpecPool ==
    /\ Init /\ [][NextPool]_vars
    /\ WF_vars(WorkerStep /\ UNCHANGED evars)
    /\ WF_vars(Join /\ UNCHANGED evars)

\* the server: connections are accepted and handed to the pool, the peers
\* send requests and close, the workers serve the connections
NextServer ==
    \/ \E c \in Conns : Accept(c) /\ UNCHANGED evars
    \/ \E c \in Conns, r \in Requests : ClientSend(c, r) /\ UNCHANGED evars
    \/ \E c \in Conns : ClientClose(c) /\ UNCHANGED evars
    \/ \E c \in Conns : ClientAbort(c) /\ UNCHANGED evars
    \/ \E w \in Workers : WorkerLock(w) /\ UNCHANGED evars
    \/ \E w \in Workers : RecvJob(w) /\ UNCHANGED evars
    \/ \E w \in Workers : HandleClient(w)
    \/ \E w \in Workers : DecodeFails(w)
    \/ \E w \in Workers : EndOfStream(w)
    \/ \E w \in Workers : DispatchGet(w)
    \/ \E w \in Workers : DispatchSet(w)
    \/ \E w \in Workers : DispatchRm(w)
    \/ \E w \in Workers : InEngine(w) /\ Thread(EngineClone, 0) /\ CloseStale(EngineClone)
    \/ \E w \in Workers : InEngine(w) /\ Thread(EngineClone, 0) /\ Unlink(EngineClone)
    \/ \E w \in Workers : InEngine(w) /\ Thread(EngineClone, 0) /\ Read(EngineClone)
    \/ \E w \in Workers : InEngine(w) /\ Thread(EngineClone, 0) /\ WriteOld(EngineClone)
    \/ \E w \in Workers : InEngine(w) /\ Thread(EngineClone, 0) /\ WriteInsert(EngineClone)
    \/ \E w \in Workers : InEngine(w) /\ Thread(EngineClone, 0) /\ CompactNew(EngineClone)
    \/ \E w \in Workers : InEngine(w) /\ Thread(EngineClone, 0) /\ CompactCopy(EngineClone)
    \/ \E w \in Workers : InEngine(w) /\ Thread(EngineClone, 0) /\ CompactFlush(EngineClone)
    \/ \E w \in Workers : InEngine(w) /\ Thread(EngineClone, 0) /\ CompactSwitch(EngineClone)
    \/ \E w \in Workers : InEngine(w) /\ Thread(EngineClone, 0) /\ StoreWatermark(EngineClone)
    \/ \E w \in Workers : InEngine(w) /\ Thread(EngineClone, 0) /\ RemoveIndex(EngineClone)
    \/ \E w \in Workers : InEngine(w) /\ Thread(EngineClone, 0) /\ RemoveUncompacted(EngineClone)
    \/ \E w \in Workers : InEngine(w) /\ Thread(EngineClone, 0) /\ RemoveWrite(EngineClone)
    \/ \E w \in Workers : Respond(w)
    \/ \E w \in Workers : RespondFails(w)
    \/ \E w \in Workers : EnginePanics(w)

SpecServer == Init /\ [][NextServer]_vars

\* ------------------------------------------------------------------ claims
\* what the history says get(k) returns
Expected(k) == IF AbsGet(k) = "Unset" THEN "None" ELSE AbsGet(k)

\* h is the handle Store::new returned (handle 1) and no clone of it has
\* completed an operation
Alone(h) == h = 1 /\ \A g \in Handles \ {h} : res[g] = NoRes

\* C1: read-your-writes.  On an engine used through one handle, a get(k)
\* called when the last record appended for k is Set{k,v}, every set and
\* remove so far having returned Ok, returns Some(v).
ReadYourWrites ==
    \A h \in Handles :
        (res[h].op = "get" /\ Alone(h) /\ res[h].cl /\ res[h].exp \in Vals)
            => res[h].out = res[h].exp

\* C2: removal masks reads.  On an engine used through one handle, a get(k)
\* called when the last record appended for k is a Rm, every set and remove
\* so far having returned Ok, returns None.
RemovalMasksReads ==
    \A h \in Handles :
        (res[h].op = "get" /\ Alone(h) /\ res[h].cl /\ res[h].exp = "None")
            => res[h].out = "None"

\* C3: on an engine used through one handle, remove(k) of a key that was
\* never set, or whose last operation was a remove that returned Ok, fails
\* with KeyNotFound.
RemoveAbsentFails ==
    \A h \in Handles :
        (res[h].op = "rm" /\ Alone(h) /\ res[h].cl /\ res[h].exp \in {"Unset", "None"})
            => res[h].out = "KeyNotFound"

\* C4: persistence.  Right after the engine is dropped between two operations
\* and opened again, the open has succeeded and for every key get(k) returns
\* what it returned before the drop and remove(k) passes its absence check
\* exactly if it did before.
Persistence ==
    (reop.kind = "clean" /\ reop.fresh /\ clean)
        => /\ reop.ok
           /\ \A k \in Keys : /\ Peek(k) = reop.snap[k].val
                               /\ (index[k] # NoEntry) = reop.snap[k].has

\* C5: compaction preserves semantics.  Between two operations, once a
\* compaction has run in this process and every set and remove has returned
\* Ok, get(k) is for every key what the abstract map of the same sets and
\* removes gives.
CompactionPreservesMapping ==
    (Quiet /\ clean /\ lcp > 0)
        => \A k \in Keys : Peek(k) = Expected(k)

\* C6: visibility across handles.  When set(k,v) has returned Ok through
\* handle g and a get(k) through another handle h started with v the last
\* value written to k, that get returned Some(v).
VisibilityAcrossHandles ==
    \A g \in Handles : \A h \in Handles \ {g} :
        (/\ res[g].op = "set" /\ res[g].out = "Ok"
         /\ res[h].op = "get" /\ res[h].key = res[g].key
         /\ res[h].cl /\ res[h].exp = res[g].val)
            => res[h].out = res[g].val

CrashMidCompactionRecovers ==
    (/\ reop.kind = "crash" /\ reop.fresh
     /\ \E h \in Handles : reop.at[h] \in {"switch", "store"})
        => /\ reop.ok
           /\ \A k \in Keys : Peek(k) = Expected(k)

\* C9: any handle can compact.  As long as no compaction has completed in
\* this process, no thread has panicked and the writer lock is not poisoned,
\* whichever handle made the write that crossed the threshold.
CloneCompacts ==
    lcp = 0 => (~poisoned /\ \A h \in Handles : pc[h] # "dead")

\* the step is the call of get(k) through h
IsGetCall(h, k) ==
    /\ pc[h] = "idle"
    /\ nops' = nops + 1
    /\ cur' = h
    /\ \/ pc'[h] = "idle" /\ res'[h].op = "get" /\ res'[h].key = k
       \/ pc'[h] # "idle" /\ loc'[h].op = "get" /\ loc'[h].key = k

\* C10: a get of a key absent from the index returns Ok(None) in the step of
\* its call and leaves the index, the writer (counter and position), the
\* watermark, the directory and every file as they were.
GetAbsentIsNone ==
    [][\A h \in Handles, k \in Keys :
          (IsGetCall(h, k) /\ index[k] = NoEntry)
              => /\ pc'[h] = "idle"
                 /\ res'[h].out = "None"
                 /\ UNCHANGED <<index, wr, lcp, exists, disk, readers, lock>>]_vars

\* C10 witness: a get has returned None for a key absent from the index while
\* the log holds records and another key has an entry.
GetAbsentIsNoneWitness ==
    \E h \in Handles :
        /\ pc[h] = "idle"
        /\ res[h].op = "get" /\ res[h].out = "None"
        /\ index[res[h].key] = NoEntry
        /\ \E k \in Keys : index[k] # NoEntry

\* no worker thread has panicked (no closure run so far has panicked)
NoPanic == \A w \in Workers : workers[w].pc # "panicked"

\* C11: pool shutdown terminates.  When the pool is being dropped and no
\* closure has panicked, drop eventually returns, all workers joined.
PoolShutdownTerminates ==
    (main.pc = "join" /\ NoPanic) ~> (main.pc = "dropped" \/ ~NoPanic)

\* the job with this id waits in the channel / has been taken by a worker
Queued(id) == \E i \in 1 .. Len(channel) : channel[i].id = id
Taken(id) == \E i \in 1 .. Len(ran) : ran[i].id = id

WorkersSurviveConnections ==
    pc[EngineClone] # "dead"
        => (NoPanic /\ ~receiver.poisoned /\ main.pc # "panicked")

\* response i of the connection answers request i as handle_client's arms do
Answers(req, resp) ==
    /\ resp.tag \in {"Ok", "Err"}
    /\ resp.tag = "Err" => resp.msg # ""
    /\ (resp.tag = "Ok" /\ req.op \in {"set", "rm"}) => resp.val = "None"
    /\ (resp.tag = "Ok" /\ req.op = "get") => resp.val \in Vals \cup {"None"}

\* C14: one response per decoded request, in order.  On every connection the
\* responses written answer the requests decoded, one each and in order; a
\* decoded request is without a response only while its engine call runs, or
\* as the last one of a connection that ended on an I/O error.
OneResponsePerRequest ==
    \A c \in Conns :
        /\ Len(streams[c].out) <= Len(streams[c].reqs)
        /\ Len(streams[c].out) >= Len(streams[c].reqs) - 1
        /\ Len(streams[c].out) < Len(streams[c].reqs)
              => \/ streams[c].state = "failed"
                 \/ \E w \in Workers : InEngine(w) /\ workers[w].job.conn = c
        /\ \A i \in 1 .. Len(streams[c].out) :
              Answers(streams[c].reqs[i], streams[c].out[i])

\* C15: a Rm of a key that has no value is answered Err("Key not found"), a
\* Get of such a key Ok(None).
AbsentKeyResponses ==
    \A c \in Conns : \A i \in 1 .. Len(streams[c].out) :
        streams[c].reqs[i].exp \in {"Unset", "None"}
            => /\ streams[c].reqs[i].op = "rm"
                    => streams[c].out[i] = ResponseErr("Key not found")
               /\ streams[c].reqs[i].op = "get"
                    => streams[c].out[i] = ResponseOk("None")

\* C16: monotone segment ids.  No step lowers the largest id in the
\* directory, a file that appears in the directory has an id above every id
\* the directory has ever held, and an open makes the active segment the
\* largest existing id plus one.
MonotoneSegmentIds ==
    [][/\ MaxOf(exists') >= MaxOf(exists)
       /\ \A id \in exists' \ exists : \A old \in DOMAIN disk : id > old
       /\ nopens' # nopens
             => /\ wr'.file_id = MaxOf(exists) + 1
                /\ wr'.file_id \in exists']_vars

\* C16 witness: the directory has been opened again and a compaction has
\* run since: older files are unlinked and newer ones created.
MonotoneSegmentIdsWitness ==
    /\ nopens > 0
    /\ lcp > 0
    /\ \E id \in DOMAIN disk : id \notin exists /\ id < wr.file_id
    /\ \E id \in exists : id > wr.file_id

\* C17: index invariant.  While no operation is in progress, every key in
\* the index has an offset into a file of the directory, and the bytes at
\* that offset are the encoding of one Set record of that key.
IndexInvariant ==
    (\A h \in Handles : pc[h] = "idle")
        => \A k \in Keys :
               index[k] # NoEntry
                   => /\ index[k].file_id \in exists
                      /\ \E v \in Vals :
                             ReadLimited(disk[index[k].file_id], index[k].start,
                                         index[k].end) = EncodeSet(k, v)
                      /\ index[k].end - index[k].start = Len(EncodeSet(k, "x"))

\* the directory ex with the bytes d and the writer w are as a compaction
\* with output c is to leave them
CompactionPost(c, ex, d, w) ==
    LET live == {k \in Keys : AbsGet(k) \in Vals}
        n == Len(EncodeSet("a", "x"))
    IN  /\ c \in ex
        /\ Len(d[c]) = Cardinality(live) * n
        /\ \A k \in live : \E i \in 0 .. Cardinality(live) - 1 :
               ReadLimited(d[c], i * n, i * n + n) = EncodeSet(k, AbsGet(k))
        /\ c + 1 \in ex
        /\ d[c + 1] = <<>>
        /\ w.fd = c + 1
        /\ \A id \in ex : id >= c

\* C18: compaction postcondition.  When a set or remove that ran a
\* compaction with output C returns Ok, C holds one Set record for each key
\* that has a value and nothing else, C + 1 exists, is empty and is the file
\* the writer appends to, and no file with an id below C is in the directory.
CompactionPostcondition ==
    [][\A h \in Handles :
          (/\ loc[h].op \in {"set", "rm"}
           /\ pc[h] \in {"store", "unlink"}
           /\ pc'[h] = "idle"
           /\ res'[h].out = "Ok")
              => CompactionPost(loc[h].cid, exists', disk', wr')]_vars

\* C19: active segment switch.  The segment id stored with the writer always
\* names the file the writer appends to, so that after a compaction that
\* started with active id A both are A + 2.
ActiveSegmentSwitch ==
    wr.file_id = wr.fd

\* handle g is inside Writer::compact or the close_stale_fds that follows it
Compacting(g) ==
    /\ loc[g].op \in {"set", "rm"}
    /\ pc[g] \in {"compact", "copy", "switch", "store", "unlink"}

\* C20: no key's offset is invalidated during the switch.  A get(k) that
\* returns while another thread is compacting, for a key k that had a value
\* when the get was called and that nobody has written or is writing since,
\* returns Some(that value), never an error or None.
GetDuringCompaction ==
    [][\A h \in Handles :
          (/\ loc[h].op = "get"
           /\ pc'[h] = "idle"
           /\ loc[h].exp \in Vals
           /\ loc[h].n = Len(vers[loc[h].key])
           /\ ~Writing(loc[h].key)
           /\ \E g \in Handles \ {h} : Compacting(g))
              => res'[h].out = loc[h].exp]_vars

\* C21: lazy discard of stale reader handles.  When close_stale_fds of a
\* handle finds, among the cached readers below the watermark, one whose file
\* another handle has already unlinked, that is not an error: a get returns
\* the key's current value (for a key nobody wrote meanwhile) and the write
\* that ran the compaction returns Ok.
LazyDiscard ==
    [][\A h \in Handles :
          (/\ pc[h] = "unlink"
           /\ loc[h].stale \ exists # {}
           /\ pc'[h] = "idle"
           /\ loc[h].op = "get"
                  => (loc[h].n = Len(vers[loc[h].key]) /\ ~Writing(loc[h].key)))
              => res'[h].out = IF loc[h].op = "get" THEN loc[h].exp ELSE "Ok"]_vars

\* handle g is in the loop of Writer::compact with entries still to redirect
Copying(g) ==
    \/ pc[g] = "compact"
    \/ pc[g] = "copy" /\ Ahead(loc[g].cursor) # {}

\* C22: compaction step order.  A step that deletes a segment file deletes
\* one whose id is below the watermark, and no compaction that retires that
\* file is still redirecting index entries; a step that advances the
\* watermark to C finds the new active segment C + 1 created.
CompactionStepOrder ==
    [][/\ \A id \in exists \ exists' :
             /\ id < lcp
             /\ \A g \in Handles : ~(Copying(g) /\ id < loc[g].cid)
       /\ lcp' # lcp /\ lcp' # 0 => lcp' + 1 \in exists]_vars

\* handle h is inside Store::write after the append: the bookkeeping, the
\* compaction, the watermark update or the compactor's deletions
InWriter(h) ==
    /\ loc[h].op \in {"set", "rm"}
    /\ pc[h] \in {"w_old", "w_insert", "compact", "copy", "switch", "store", "unlink"}

\* C23: writer mutual exclusion.  A thread that is inside an append or a
\* compaction holds the writer lock, so no two threads are there at once.
WriterMutualExclusion ==
    /\ \A h \in Handles : InWriter(h) => lock = h
    /\ \A g \in Handles : \A h \in Handles \ {g} : ~(InWriter(g) /\ InWriter(h))

\* C23 witness: one thread is copying in a compaction while another, in the
\* middle of a remove, waits for the writer lock.
WriterMutualExclusionWitness ==
    \E g \in Handles : \E h \in Handles \ {g} :
        /\ pc[g] = "copy" /\ lock = g
        /\ pc[h] = "w_lock"

\* handle h is in Store::remove between the absence check and the append
\* of the Remove record
InRemove(h) == pc[h] \in {"rm_index", "rm_unc", "w_lock"}

\* the step is a step of a set or remove of handle g
WriterStep(g) ==
    /\ pc'[g] # pc[g] \/ loc'[g] # loc[g]
    /\ loc[g].op \in {"set", "rm"} \/ loc'[g].op \in {"set", "rm"}

\* C24: remove is atomic with respect to other writers.  While a remove is
\* between its absence check and the append of its record, no set, remove or
\* compaction of another thread takes a step.
RemoveAtomic ==
    [][\A h \in Handles :
          InRemove(h) => \A g \in Handles \ {h} : ~WriterStep(g)]_vars

\* C25: a compaction that fails part-way leaves the pre-compaction state
\* intact.  The step on which the compaction's I/O error is returned leaves
\* the writer (active file, position, counter) as it was; and from then on,
\* between two operations and as long as no write has followed a completed
\* compaction, get(k) is for every key the last value written, also after a
\* later compaction attempt.
FailedCompactionIntact ==
    /\ [][\A h \in Handles :
             (pc[h] \in {"compact", "copy", "switch"} /\ pc'[h] = "idle")
                 => wr' = wr]_vars
    /\ []((/\ Quiet /\ ~clean
            /\ \A h \in Handles : pc[h] # "dead"
            /\ (wr.file_id = wr.fd \/ wr.pos = 0))
              => \A k \in Keys : Peek(k) = Expected(k))

\* the last step taken was the return of a set or remove of h with Ok
JustWrote(h) ==
    /\ cur = h
    /\ pc[h] = "idle"
    /\ res[h].op \in {"set", "rm"}
    /\ res[h].out = "Ok"

\* C26: compaction is triggered inline and resets the counter.  Whenever a
\* set or remove has just returned Ok and no operation is in progress, the
\* counter of stale bytes is at most COMPACTION_THRESHOLD.
CounterBelowThreshold ==
    \A h \in Handles :
        (Quiet /\ JustWrote(h)) => wr.uncompacted <= COMPACTION_THRESHOLD

\* C26 witness: the write that has just returned Ok ran a compaction, which
\* left the counter at 0.
CounterBelowThresholdWitness ==
    \E h \in Handles :
        /\ Quiet /\ JustWrote(h)
        /\ lcp > 0 /\ wr.pos = 0 /\ wr.uncompacted = 0

\* the records of a segment file from byte p on, each with its offsets
RECURSIVE RecordsOf(_, _, _)
RecordsOf(content, id, p) ==
    IF p >= Len(content) THEN <<>>
    ELSE LET n == IF content[p + 1] = "S" THEN Len(EncodeSet("a", "x"))
                  ELSE Len(EncodeRm("a"))
         IN  <<[op |-> content[p + 1], key |-> content[p + 2],
                file_id |-> id, start |-> p, end |-> p + n]>>
             \o RecordsOf(content, id, p + n)

\* the records replayed by Store::new, in the order it replays them
Replayed == RecordsOf(disk[1], 1, 0) \o RecordsOf(disk[2], 2, 0)

\* the records of key k among the first n replayed
Before(k, n) == {j \in 1 .. n : Replayed[j].key = k}

\* the byte length of the entry key k has after the first n records
LiveLen(k, n) ==
    IF Before(k, n) = {} THEN 0
    ELSE LET r == Replayed[MaxOf(Before(k, n))]
         IN  IF r.op = "S" THEN r.end - r.start ELSE 0

\* the stale bytes the claim gives the first n records
RECURSIVE StaleBytes(_)
StaleBytes(n) ==
    IF n = 0 THEN 0
    ELSE LET r == Replayed[n]
         IN  StaleBytes(n - 1) + LiveLen(r.key, n - 1)
                 + (IF r.op = "R" THEN r.end - r.start ELSE 0)

\* the entry the claim gives key k after the replay
LastSet(k) ==
    IF Before(k, Len(Replayed)) = {} THEN NoEntry
    ELSE LET r == Replayed[MaxOf(Before(k, Len(Replayed)))]
         IN  IF r.op = "S"
             THEN [file_id |-> r.file_id, start |-> r.start, end |-> r.end]
             ELSE NoEntry

\* C27: replay of a segment.  After Store::new has replayed the segment files
\* into its index, the stale-byte count is the sum over the records of the
\* length of the entry each Set or Remove displaces plus the own length of
\* each Remove, and the index maps exactly the keys whose last record is a
\* Set, each to the segment and offsets of that record.
ReplayCounts ==
    reop.fresh
        => /\ reop.ok
           /\ wr.uncompacted = StaleBytes(Len(Replayed))
           /\ \A k \in Keys : index[k] = LastSet(k)

\* C27 witness: the replay met a Remove of a key the index did not hold, a
\* Remove that displaced a Set of an earlier segment, and it left a key set.
ReplayCountsWitness ==
    /\ reop.fresh
    /\ \E i \in 1 .. Len(Replayed) :
           Replayed[i].op = "R" /\ LiveLen(Replayed[i].key, i - 1) = 0
    /\ \E i \in 1 .. Len(Replayed) :
           /\ Replayed[i].op = "R" /\ Replayed[i].file_id = 2
           /\ LiveLen(Replayed[i].key, i - 1) > 0
           /\ Replayed[MaxOf(Before(Replayed[i].key, i - 1))].file_id = 1
    /\ \E k \in Keys : index[k] # NoEntry

\* the stale bytes a replay of the directory, as it is now, would count
ReplayCounter == LoadInactiveFiles(SortedIds(exists), 1, disk, EmptyIndex, 0).unc

\* C28: the counter after a remove.  A remove(k) that has returned Ok without
\* triggering a compaction has added the length of the displaced record of k
\* and the length of its own Remove record, so that, in a process that has not
\* compacted, the counter equals the one a replay of the same log computes.
RemoveCountsItself ==
    \A h \in Handles :
        (Quiet /\ clean /\ lcp = 0 /\ JustWrote(h) /\ res[h].op = "rm")
            => wr.uncompacted = ReplayCounter

\* C29: pool parallelism.  A worker that runs a job does not hold the lock of
\* the shared receiver, so that an idle worker can take the next job.
PoolParallelism ==
    \A w \in Workers : workers[w].pc = "run" => receiver.lock # w

\* handle h is in the deletions of its compaction, a segment below the output
\* is unlinked already and an older one is still to unlink
PartlyDeleted(h) ==
    /\ pc[h] = "unlink"
    /\ loc[h].op \in {"set", "rm"}
    /\ \E id \in DOMAIN disk \ exists : \E j \in loc[h].stale \cap exists :
           j < id /\ id < loc[h].cid

\* C30: a crash during the deletion phase does not resurrect data.  When the
\* process is killed with a newer retired segment unlinked and an older one
\* still there, the next open succeeds and get(k) is None for every key whose
\* last operation was a remove and the last value written for every other.
CrashInDeletionRecovers ==
    [][(/\ nopens' = nopens + 1
        /\ \E h \in Handles : PartlyDeleted(h))
           => /\ reop'.ok
              /\ \A k \in Keys : Peek(k)' = Expected(k)]_vars

\* C31: a segment file is deleted only when it is unreferenced.  On a step
\* that unlinks a segment file, no index entry names that segment and the
\* writer does not append to it.
DeletedUnreferenced ==
    [][\A id \in exists \ exists' :
          /\ \A k \in Keys : index[k] # NoEntry => index[k].file_id # id
          /\ wr.fd # id]_vars

\* C32: write positions match the files.  A step that opens the writer of a
\* compaction output, or the writer of the new active segment, opens a file
\* that was not in the directory; and the position of the active writer is
\* always the byte length of the file it appends to.
WritePositionsMatch ==
    [][/\ \A h \in Handles :
             (pc[h] = "compact" /\ pc'[h] = "copy") => loc'[h].cid \notin exists
       /\ \A h \in Handles :
             (pc[h] = "switch" /\ pc'[h] = "store") => wr'.fd \notin exists
       /\ wr'.pos = Len(disk'[wr'.fd])]_vars

====
